---- MODULE Spec2Model ----
(***************************************************************************)
(* Model of the menu-driven Telegram bot (src/bot.py) and of the companion *)
(* persistence module (src/database.py).                                   *)
(*                                                                         *)
(* A behaviour is a run of one of two programs, told apart by `program`:    *)
(*   bot.py      : main, init_db's retry loop, then the                    *)
(*                 ConversationHandler dispatching /start, /cancel, button *)
(*                 presses and text messages to the handlers of bot.py;    *)
(*   database.py : a program that imports the library and calls init_db,   *)
(*                 add_request, add_submission, get_requests_by_user and   *)
(*                 get_submissions_by_user.                                *)
(*                                                                         *)
(* Strings the code transforms (message texts) are sequences of one-       *)
(* character strings; labels the code only compares are TLA+ strings.      *)
(***************************************************************************)
EXTENDS Integers, Sequences, FiniteSets, TLC

\* ------------------------------------------------------------------ bounds
\* rows a requests table may hold in the model
MaxRows == 2
\* rows the submissions table may hold in the model
MaxSubmissions == 1
\* seconds the server's clock may advance
MaxClock == 1

\* ------------------------------------------------------- program constants
\* init_db(retry_seconds=1, max_retries=6)
max_retries == 6
retry_seconds == 1

\* ------------------------------------------------------------ input sets
Users == {1}

\* text messages a user may send (leading/trailing blanks, leading '@')
Texts == { <<" ", "@", "a", " ">> }

Whitespace == {" "}

\* a key that is not in a dict: dicts are records over all their possible
\* keys, and an absent key holds the marker of its type
NoStr  == "<absent>"
NoText == << "<absent>" >>
NoMessage == << << "<absent>" >> >>

\* ------------------------------------------------------- string built-ins
RECURSIVE lstrip(_, _)
lstrip(s, chars) ==
    IF s = << >> THEN s
    ELSE IF Head(s) \in chars THEN lstrip(Tail(s), chars) ELSE s

RECURSIVE rstrip(_, _)
rstrip(s, chars) ==
    IF s = << >> THEN s
    ELSE IF s[Len(s)] \in chars THEN rstrip(SubSeq(s, 1, Len(s) - 1), chars) ELSE s

strip(s) == lstrip(rstrip(s, Whitespace), Whitespace)

\* ------------------------------------------------------------- the menu
\* conversation.json is not part of the sources: the menus below follow the
\* description of the menu definition file (node -> message template,
\* options, next-mapping, description) and the node names bot.py hardcodes.
NoNext == [x \in {} |-> NoStr]

Node(message, description, options, next) ==
    [message |-> message, description |-> description,
     options |-> options, next |-> next]

EmptyNode == Node(NoMessage, NoStr, << >>, NoNext)

SummaryTemplate ==
    << <<"Summary">>, <<"{project_type}">>, <<"{project_details}">>, <<"{username}">> >>

MenuWellFormed ==
    [n \in {"start", "services", "web_design", "request_details", "request_username",
            "request_summary", "request_confirmation", "my_requests"} |->
       CASE n = "start" ->
              Node(<< <<"Welcome">> >>, NoStr, <<"Our Services", "My Requests">>,
                   ("Our Services" :> "services") @@ ("My Requests" :> "my_requests"))
         [] n = "services" ->
              Node(<< <<"Pick a service">> >>, NoStr, <<"Web Design", "Back">>,
                   ("Web Design" :> "web_design"))
         [] n = "web_design" ->
              Node(<< <<"Web Design">> >>, "We build web sites", << >>, NoNext)
         [] n = "request_details" ->
              Node(<< <<"Describe your project">> >>, NoStr, << >>, NoNext)
         [] n = "request_username" ->
              Node(<< <<"Your username?">> >>, NoStr, << >>, NoNext)
         [] n = "request_summary" ->
              Node(SummaryTemplate, NoStr, <<"Confirm Transaction", "Cancel Request">>, NoNext)
         [] n = "request_confirmation" ->
              Node(<< <<"Request received">> >>, NoStr, <<"Back">>, NoNext)
         [] n = "my_requests" ->
              Node(<< <<"Your requests">> >>, NoStr, <<"Back">>, NoNext)]

\* a menu with a dangling next-mapping entry ("About" -> "about", no such
\* node), an empty entry for request_username, and a button that leads to
\* the summary past the collection of the fields
MenuBroken ==
    [n \in DOMAIN MenuWellFormed |->
       CASE n = "services" ->
              Node(<< <<"Pick a service">> >>, NoStr, <<"Web Design", "About", "Back">>,
                   ("Web Design" :> "web_design") @@ ("About" :> "about"))
         [] n = "request_username" -> EmptyNode
         [] n = "my_requests" ->
              Node(<< <<"Your requests">> >>, NoStr, <<"My Requests", "Back">>,
                   ("My Requests" :> "request_summary"))
         [] OTHER -> MenuWellFormed[n]]

Menus == <<MenuWellFormed, MenuBroken>>

\* button payloads (callback_data) a user may send
Buttons == {"Confirm Transaction", "Cancel Request", "Request Service", "Back",
            "Our Services", "My Requests", "Web Design", "About"}

\* ------------------------------------------------------------------ state
VARIABLES
    program,     \* the program that runs: "bot.py", or one that imports "database.py"
    pc,          \* position of the process: "main", "init_db", "polling", "exit"
                 \* (bot.py); "import", "ready", "exit" (database.py)
    env,         \* environment configuration: which variables are set
    CONVO,       \* the loaded menu mapping
    DB_POOL,     \* global pool: TRUE once created, FALSE for None
    attempt,     \* init_db's attempt counter
    slept,       \* argument of init_db's last time.sleep
    mysql,       \* the MySQL server: database/table existence and the rows
    user_data,   \* context.user_data of every user
    conv,        \* ConversationHandler's state of every user
    update,      \* the update handled last (database.py: the call made last)
    out,         \* what the last handler did: messages, persistence, exception
    POOL,        \* database.py's pool: TRUE once the import created it
    db,          \* database.py's tables and the server's clock
    tasks,       \* the handlers in flight, each suspended at an await
    checked_out  \* connections taken from the pool and not given back

vars == <<program, pc, env, CONVO, DB_POOL, attempt, slept, mysql, user_data, conv,
          update, out, POOL, db, tasks, checked_out>>

\* what database.py owns, and what bot.py owns beside pc, env, update and out
dbvars  == <<POOL, db>>
botvars == <<CONVO, DB_POOL, attempt, slept, mysql, user_data, conv, tasks>>

END == "END"

\* context.user_data.clear()
EmptyUserData ==
    [state_name |-> NoStr, last_choice |-> NoStr, parent_state |-> NoStr,
     project_type |-> NoStr, project_details |-> NoText, username |-> NoText]

Absent(key) ==
    IF key \in {"project_details", "username"} THEN NoText
    ELSE IF key = "message" THEN NoMessage ELSE NoStr

\* dict.get(key, default)
Get(d, key, default) ==
    IF d[key] = Absent(key) THEN default ELSE d[key]

\* "if not state": no entry, or an entry that is an empty dict
Falsy(state_name) ==
    \/ state_name \notin DOMAIN CONVO
    \/ LET state == CONVO[state_name]
       IN  /\ state.message = NoMessage /\ state.description = NoStr
           /\ state.options = << >> /\ DOMAIN state.next = {}

\* an update as the handlers see it: its kind, its user, query.data or
\* message.text, and the node the user's session is at when it arrives
Update(kind, user, data, text) ==
    [kind |-> kind, user |-> user, data |-> data, text |-> text,
     node |-> user_data[user].state_name]

NoUpdate == [kind |-> "none", user |-> 0, data |-> NoStr, text |-> NoText, node |-> NoStr]

\* what a handler or call did: the exception it raised, the warning and
\* the node it sent, the rows it listed, how its database call ended ("ok",
\* "Error", "ValueError"), where the server failed during it, and the
\* handler that ran ("none" when the update was dispatched to no handler)
NoOut ==
    [raised |-> "none", warned |-> FALSE, rendered |-> "none", text |-> << >>,
     listing |-> << >>, buttons |-> << >>, via |-> "none", db |-> "none",
     fault |-> "none", handler |-> "none"]

\* ------------------------------------------------------ bot.py: DB helpers
\* the configurations the process may be started with
Envs ==
    { [token |-> TRUE,  host |-> TRUE,  user |-> TRUE, password |-> TRUE],
      [token |-> FALSE, host |-> TRUE,  user |-> TRUE, password |-> TRUE],
      [token |-> TRUE,  host |-> FALSE, user |-> TRUE, password |-> TRUE],
      [token |-> TRUE,  host |-> TRUE,  user |-> TRUE, password |-> FALSE] }

\* database.py reads DATABASE_URL alone
UrlEnvs == { [DATABASE_URL |-> TRUE], [DATABASE_URL |-> FALSE] }

\* get_db_creds(): the fields the environment provides
get_db_creds == [host |-> env.host, user |-> env.user, password |-> env.password]

\* where a database call may fail with mysql.connector.Error
Faults == {"none", "server", "pool", "connect", "execute", "commit"}

\* ensure_pool() on pool value `pool`: the pool afterwards and how it ended
ensure_pool(pool, fault) ==
    LET creds == get_db_creds IN
    IF pool THEN [pool |-> TRUE, res |-> "ok"]
    ELSE IF ~creds.host \/ ~creds.user \/ ~creds.password
         THEN [pool |-> FALSE, res |-> "ValueError"]
    ELSE IF fault = "pool" \/ ~mysql.database
         THEN [pool |-> FALSE, res |-> "Error"]
    ELSE [pool |-> TRUE, res |-> "ok"]

\* get_connection(): ensure_pool(), then DB_POOL.get_connection()
get_connection(pool, fault) ==
    LET e == ensure_pool(pool, fault) IN
    IF e.res # "ok" THEN e
    ELSE IF fault = "connect" THEN [pool |-> e.pool, res |-> "Error"]
    ELSE e

\* the row INSERT INTO requests (user_id, username, project_type, details)
\* adds: id is AUTO_INCREMENT, status defaults to 'Pending'
NewRow(user_id, username, project_type, details) ==
    [id |-> Len(mysql.rows) + 1, user_id |-> user_id, username |-> username,
     project_type |-> project_type, details |-> details, status |-> "Pending"]

\* save_request() that leaves out a request the table already holds
save_request_Deduplicates(user_id, username, project_type, details, fault) ==
    LET c   == get_connection(DB_POOL, fault)
        row == NewRow(user_id, username, project_type, details)
        held == \E i \in 1..Len(mysql.rows) : [mysql.rows[i] EXCEPT !.id = row.id] = row
    IN
    IF c.res = "ValueError"
    THEN [pool |-> c.pool, rows |-> mysql.rows, res |-> "ValueError"]
    ELSE IF c.res = "Error" \/ fault \in {"execute", "commit"} \/ ~mysql.table
    THEN [pool |-> c.pool, rows |-> mysql.rows, res |-> "Error"]
    ELSE [pool |-> c.pool, res |-> "ok",
          rows |-> IF held THEN mysql.rows ELSE Append(mysql.rows, row)]

\* save_request(): the pool and the rows afterwards, and how the call ended
\* ("ok", "Error" caught and logged, "ValueError" propagated)
save_request(user_id, username, project_type, details, fault) ==
    LET c == get_connection(DB_POOL, fault) IN
    IF c.res = "ValueError"
    THEN [pool |-> c.pool, rows |-> mysql.rows, res |-> "ValueError"]
    ELSE IF c.res = "Error" \/ fault \in {"execute", "commit"} \/ ~mysql.table
    THEN [pool |-> c.pool, rows |-> mysql.rows, res |-> "Error"]
    ELSE [pool |-> c.pool, res |-> "ok",
          rows |-> Append(mysql.rows, NewRow(user_id, username, project_type, details))]

\* SELECT id, project_type, status FROM requests WHERE user_id = %s
Selected(user_id) ==
    LET hit == SelectSeq(mysql.rows, LAMBDA r : r.user_id = user_id)
    IN  [i \in 1..Len(hit) |-> <<hit[i].id, hit[i].project_type, hit[i].status>>]

\* the orders in which a SELECT without ORDER BY may return its rows
Orderings(rows) ==
    { [i \in 1..Len(rows) |-> rows[p[i]]] : p \in Permutations(1..Len(rows)) }

\* get_user_requests(): `listing` is the order the server returns the rows in
get_user_requests(user_id, fault, listing) ==
    LET c == get_connection(DB_POOL, fault) IN
    IF c.res = "ValueError"
    THEN [pool |-> c.pool, rows |-> << >>, res |-> "ValueError"]
    ELSE IF c.res = "Error" \/ fault = "execute" \/ ~mysql.table
    THEN [pool |-> c.pool, rows |-> << >>, res |-> "Error"]
    ELSE [pool |-> c.pool, rows |-> listing, res |-> "ok"]

\* ------------------------------------------------------- bot.py: handlers
\* str.format that leaves the username out
Format_DropsUsername(template, project_type, project_details, username) ==
    [i \in 1..Len(template) |->
        IF template[i] = <<"{project_type}">> THEN <<project_type>>
        ELSE IF template[i] = <<"{project_details}">> THEN project_details
        ELSE IF template[i] = <<"{username}">> THEN << >>
        ELSE template[i]]

\* str.format(project_type=..., project_details=..., username=...)
Format(template, project_type, project_details, username) ==
    [i \in 1..Len(template) |->
        IF template[i] = <<"{project_type}">> THEN <<project_type>>
        ELSE IF template[i] = <<"{project_details}">> THEN project_details
        ELSE IF template[i] = <<"{username}">> THEN username
        ELSE template[i]]

\* the node goto_state renders when asked for state_name
Resolved(state_name) == IF Falsy(state_name) THEN "start" ELSE state_name

\* goto_state(update, context, state_name): ud is context.user_data, callback
\* tells a callback-query update (update.message is None) from a message
\* update; fault and listing are the database's part in get_user_requests.
\* The result holds user_data and DB_POOL afterwards, what was sent, the
\* exception raised ("none" when it returns) and the value returned.
goto_state(ud, user, callback, state_name, fault, listing) ==
    LET unknown == Falsy(state_name)
        name    == Resolved(state_name)
        state   == CONVO[name]
        ud1     == [ud EXCEPT !.state_name = name]
        text0   == Get(state, "message", << >>)
        text1   == IF name = "request_summary"
                   THEN Format(text0, Get(ud1, "project_type", "Unknown"),
                               Get(ud1, "project_details", << >>),
                               Get(ud1, "username", << >>))
                   ELSE text0
        q       == IF name = "my_requests"
                   THEN get_user_requests(user, fault, listing)
                   ELSE [pool |-> DB_POOL, rows |-> << >>, res |-> "none"]
        text2   == IF name # "my_requests" THEN text1
                   ELSE IF q.rows # << >> THEN Append(text1, <<"requests:">>)
                   ELSE Append(text1, <<"(No requests yet.)">>)
        descr   == state.description # NoStr
        text    == IF descr THEN << <<state.description>> >> ELSE text2
        buttons == IF descr THEN <<"Request Service", "Back">> ELSE state.options
    IN
    IF unknown /\ callback
    THEN \* update.message is None: reply_text raises before anything is stored
         [NoOut EXCEPT !.raised = "AttributeError"]
             @@ [ud |-> ud, pool |-> DB_POOL, ret |-> NoStr]
    ELSE IF q.res = "ValueError"
    THEN [NoOut EXCEPT !.raised = "ValueError", !.warned = unknown, !.db = q.res]
             @@ [ud |-> ud1, pool |-> q.pool, ret |-> NoStr]
    ELSE [raised |-> "none", warned |-> unknown, rendered |-> name, text |-> text,
          listing |-> q.rows, buttons |-> buttons,
          via |-> IF callback THEN "edit" ELSE "reply", db |-> q.res, fault |-> fault,
          handler |-> "none",
          ud |-> ud1, pool |-> q.pool, ret |-> name]

\* the result of a handler that goes on to goto_state after its own work
Result(r, rows) == r @@ [rows |-> rows]

\* state.get("next", {}) for state = CONVO.get(state_name, {})
NextMapping(state_name) ==
    IF state_name \in DOMAIN CONVO THEN CONVO[state_name].next ELSE NoNext

Target_UnknownToRoot(ud, choice) ==
    LET state_name == Get(ud, "state_name", "start")
        next       == NextMapping(state_name)
    IN  CASE choice = "Confirm Transaction" -> "request_confirmation"
          [] choice = "Cancel Request" -> "start"
          [] choice = "Request Service" -> "request_details"
          [] choice = "Back" -> Get(ud, "parent_state", "start")
          [] OTHER -> IF choice \in DOMAIN next THEN next[choice] ELSE "start"

\* the node handle_callback asks goto_state for: the hardcoded payloads
\* first, then the next-mapping of the current node, else the current node
Target(ud, choice) ==
    LET state_name == Get(ud, "state_name", "start")
        next       == NextMapping(state_name)
    IN  CASE choice = "Confirm Transaction" -> "request_confirmation"
          [] choice = "Cancel Request" -> "start"
          [] choice = "Request Service" -> "request_details"
          [] choice = "Back" -> Get(ud, "parent_state", "start")
          [] OTHER -> IF choice \in DOMAIN next THEN next[choice] ELSE state_name

\* handle_callback(update, context) for query.data = choice
handle_callback(ud, user, choice, fault, listing) ==
    LET state_name == Get(ud, "state_name", "start")
        ud1        == [ud EXCEPT !.last_choice = choice]
        target     == Target(ud1, choice)
    IN
    IF choice = "Confirm Transaction" THEN
        LET s == save_request(user, Get(ud1, "username", << >>),
                              Get(ud1, "project_type", "Unknown"),
                              Get(ud1, "project_details", << >>), fault)
            r == goto_state(ud1, user, TRUE, target, "none", << >>)
        IN  IF s.res = "ValueError"
            THEN [NoOut EXCEPT !.raised = "ValueError", !.db = s.res]
                     @@ [ud |-> ud1, pool |-> s.pool, ret |-> NoStr, rows |-> mysql.rows]
            ELSE [Result(r, s.rows) EXCEPT !.db = s.res, !.pool = s.pool]
    ELSE IF choice = "Cancel Request" THEN
        Result(goto_state(EmptyUserData, user, TRUE, target, fault, listing), mysql.rows)
    ELSE IF choice \in {"Request Service", "Back"} THEN
        Result(goto_state(ud1, user, TRUE, target, fault, listing), mysql.rows)
    ELSE IF choice \in DOMAIN NextMapping(state_name) THEN
        LET described == /\ target \in DOMAIN CONVO
                         /\ CONVO[target].description # NoStr
            ud2       == IF described
                         THEN [ud1 EXCEPT !.parent_state = state_name, !.project_type = choice]
                         ELSE ud1
        IN  Result(goto_state(ud2, user, TRUE, target, fault, listing), mysql.rows)
    ELSE Result(goto_state(ud1, user, TRUE, target, fault, listing), mysql.rows)

start_KeepsSession(ud, user, fault, listing) ==
    Result(goto_state(ud, user, FALSE, "start", fault, listing), mysql.rows)

\* start(update, context)
start(ud, user, fault, listing) ==
    Result(goto_state(EmptyUserData, user, FALSE, "start", fault, listing), mysql.rows)

\* cancel(update, context)
cancel(ud) ==
    [NoOut EXCEPT !.text = << <<"Cancelled.">> >>, !.via = "reply"]
        @@ [ud |-> EmptyUserData, pool |-> DB_POOL, ret |-> END, rows |-> mysql.rows]

\* the node handle_text asks goto_state for (none outside the two text nodes)
TextTarget(ud) ==
    LET state_name == Get(ud, "state_name", "start")
    IN  CASE state_name = "request_details" -> "request_username"
          [] state_name = "request_username" -> "request_summary"
          [] OTHER -> NoStr

\* handle_text storing the request as soon as the username is entered
handle_text_Saves(ud, user, text, fault, listing) ==
    LET state_name == Get(ud, "state_name", "start") IN
    IF state_name = "request_details" THEN
        Result(goto_state([ud EXCEPT !.project_details = strip(text)],
                          user, FALSE, TextTarget(ud), fault, listing), mysql.rows)
    ELSE IF state_name = "request_username" THEN
        Result(goto_state([ud EXCEPT !.username = lstrip(strip(text), {"@"})],
                          user, FALSE, TextTarget(ud), fault, listing),
               IF mysql.table /\ Len(mysql.rows) < MaxRows
               THEN Append(mysql.rows,
                           NewRow(user, lstrip(strip(text), {"@"}),
                                  Get(ud, "project_type", "Unknown"),
                                  Get(ud, "project_details", << >>)))
               ELSE mysql.rows)
    ELSE [NoOut EXCEPT !.text = << <<"Please use the menu buttons.">> >>, !.via = "reply"]
             @@ [ud |-> ud, pool |-> DB_POOL, ret |-> NoStr, rows |-> mysql.rows]

\* handle_text(update, context) for update.message.text = text
handle_text(ud, user, text, fault, listing) ==
    LET state_name == Get(ud, "state_name", "start") IN
    IF state_name = "request_details" THEN
        Result(goto_state([ud EXCEPT !.project_details = strip(text)],
                          user, FALSE, TextTarget(ud), fault, listing), mysql.rows)
    ELSE IF state_name = "request_username" THEN
        Result(goto_state([ud EXCEPT !.username = lstrip(strip(text), {"@"})],
                          user, FALSE, TextTarget(ud), fault, listing), mysql.rows)
    ELSE [NoOut EXCEPT !.text = << <<"Please use the menu buttons.">> >>, !.via = "reply"]
             @@ [ud |-> ud, pool |-> DB_POOL, ret |-> NoStr, rows |-> mysql.rows]

\* ---------------------------------------------------- bot.py: the process
TextStates == {"request_details", "request_username"}

\* all_states of main(): the nodes whose handler is the CallbackQueryHandler
ButtonStates == DOMAIN CONVO \ TextStates

EmptyDb ==
    [requests_table |-> FALSE, submissions_table |-> FALSE,
     requests |-> << >>, submissions |-> << >>, now |-> 0]

Init ==
    /\ program \in {"bot.py", "database.py"}
    /\ pc = IF program = "bot.py" THEN "main" ELSE "import"
    /\ env \in IF program = "bot.py" THEN Envs ELSE UrlEnvs
    /\ CONVO \in IF program = "bot.py" THEN {Menus[i] : i \in DOMAIN Menus}
                 ELSE {MenuWellFormed}
    /\ POOL = FALSE
    /\ db = EmptyDb
    /\ DB_POOL = FALSE
    /\ attempt = 0
    /\ slept = 0
    /\ mysql = [database |-> FALSE, table |-> FALSE, rows |-> << >>]
    /\ user_data = [u \in Users |-> EmptyUserData]
    /\ conv = [u \in Users |-> END]
    /\ update = NoUpdate
    /\ out = NoOut
    /\ tasks = {}
    /\ checked_out = 0

\* main() up to the call of init_db and init_db's check of the host
Main ==
    /\ pc = "main"
    /\ IF ~env.token
       THEN /\ pc' = "exit"
            /\ out' = [NoOut EXCEPT !.raised = "SystemExit"]
       ELSE /\ pc' = IF ~get_db_creds.host THEN "polling" ELSE "init_db"
            /\ out' = NoOut
    /\ attempt' = 0
    /\ UNCHANGED <<program, env, CONVO, DB_POOL, slept, mysql, user_data, conv, update>>
    /\ UNCHANGED dbvars
    /\ UNCHANGED <<tasks, checked_out>>

\* the connections an operation leaves checked out: it holds one when
\* get_connection() returned (`got`), and gives it back when its
\* conn.close() is reached (`closes`)
Left(got, closes) == IF got /\ ~closes THEN 1 ELSE 0

\* init_db with CREATE TABLE replaced by DROP TABLE and CREATE TABLE
init_db_attempt_Recreates(fault) ==
    LET created == [mysql EXCEPT !.database = TRUE]
        e       == ensure_pool(FALSE, fault)
    IN
    IF fault = "server"
    THEN [mysql |-> mysql, pool |-> DB_POOL, res |-> "Error"]
    ELSE IF e.res # "ok" \/ fault = "pool"
    THEN [mysql |-> created, pool |-> FALSE,
          res |-> IF e.res = "ValueError" THEN "ValueError" ELSE "Error"]
    ELSE IF fault \in {"connect", "execute"}
    THEN [mysql |-> created, pool |-> TRUE, res |-> "Error"]
    ELSE [mysql |-> [created EXCEPT !.table = TRUE, !.rows = << >>], pool |-> TRUE,
          res |-> IF fault = "commit" THEN "Error" ELSE "ok"]

\* one pass of init_db's while loop; fault is where mysql.connector.Error
\* is raised in it. The result holds the server and the pool afterwards.
init_db_attempt(fault) ==
    LET created == [mysql EXCEPT !.database = TRUE]
        e       == ensure_pool(FALSE, fault)
    IN
    IF fault = "server"
    THEN [mysql |-> mysql, pool |-> DB_POOL, res |-> "Error"]
    ELSE IF e.res # "ok" \/ fault = "pool"
    THEN [mysql |-> created, pool |-> FALSE,
          res |-> IF e.res = "ValueError" THEN "ValueError" ELSE "Error"]
    ELSE IF fault \in {"connect", "execute"}
    THEN [mysql |-> created, pool |-> TRUE, res |-> "Error"]
    ELSE [mysql |-> [created EXCEPT !.table = TRUE], pool |-> TRUE,
          res |-> IF fault = "commit" THEN "Error" ELSE "ok"]

\* the connections of DB_POOL checked out after a pass of init_db that
\* ended as r: a pass that gets as far as line 150 makes a new pool, and
\* conn2.close() is reached only when nothing before it raised
conn2_left(fault, r) ==
    (IF fault = "server" THEN checked_out ELSE 0)
       + Left(r.pool /\ fault \notin {"server", "connect"}, r.res = "ok")

\* init_db's loop with time.sleep(retry_seconds) after every failure
InitDbAttempt_ConstantSleep(fault) ==
    /\ pc = "init_db"
    /\ attempt < max_retries
    /\ LET r == init_db_attempt(fault) IN
       /\ mysql' = r.mysql
       /\ DB_POOL' = r.pool
       /\ checked_out' = conn2_left(fault, r)
       /\ IF r.res = "ok"
          THEN /\ pc' = "polling"
               /\ attempt' = 0 /\ slept' = 0
               /\ out' = [NoOut EXCEPT !.db = "ok", !.fault = fault]
          ELSE IF r.res = "ValueError"
          THEN /\ pc' = "exit"
               /\ attempt' = 0 /\ slept' = 0
               /\ out' = [NoOut EXCEPT !.raised = "ValueError", !.db = "ValueError",
                                       !.fault = fault]
          ELSE /\ pc' = "init_db"
               /\ attempt' = attempt + 1
               /\ slept' = retry_seconds
               /\ out' = [NoOut EXCEPT !.db = "Error", !.fault = fault]
    /\ UNCHANGED <<program, env, CONVO, user_data, conv, update>>
    /\ UNCHANGED dbvars
    /\ UNCHANGED tasks

\* one pass of init_db's while loop: return on success, else count the
\* failure, log it and sleep retry_seconds * attempt
InitDbAttempt(fault) ==
    /\ pc = "init_db"
    /\ attempt < max_retries
    /\ LET r == init_db_attempt(fault) IN
       /\ mysql' = r.mysql
       /\ DB_POOL' = r.pool
       /\ checked_out' = conn2_left(fault, r)
       /\ IF r.res = "ok"
          THEN \* return: init_db's locals are gone, main goes on to poll
               /\ pc' = "polling"
               /\ attempt' = 0 /\ slept' = 0
               /\ out' = [NoOut EXCEPT !.db = "ok", !.fault = fault]
          ELSE IF r.res = "ValueError"
          THEN \* not an Error: it leaves init_db and main
               /\ pc' = "exit"
               /\ attempt' = 0 /\ slept' = 0
               /\ out' = [NoOut EXCEPT !.raised = "ValueError", !.db = "ValueError",
                                       !.fault = fault]
          ELSE /\ pc' = "init_db"
               /\ attempt' = attempt + 1
               /\ slept' = retry_seconds * (attempt + 1)
               /\ out' = [NoOut EXCEPT !.db = "Error", !.fault = fault]
    /\ UNCHANGED <<program, env, CONVO, user_data, conv, update>>
    /\ UNCHANGED dbvars
    /\ UNCHANGED tasks

\* the while condition fails after max_retries failures: the failure is
\* logged, init_db returns and main goes on to poll
InitDbGiveUp ==
    /\ pc = "init_db"
    /\ attempt >= max_retries
    /\ pc' = "polling"
    /\ attempt' = 0 /\ slept' = 0
    /\ out' = [NoOut EXCEPT !.db = "Error"]
    /\ UNCHANGED <<program, env, CONVO, DB_POOL, mysql, user_data, conv, update>>
    /\ UNCHANGED dbvars
    /\ UNCHANGED <<tasks, checked_out>>

\* the handler main registers for an update of this kind
HandlerOf(kind) ==
    CASE kind = "start" -> "start"
      [] kind = "cancel" -> "cancel"
      [] kind = "callback" -> "handle_callback"
      [] kind = "text" -> "handle_text"

\* a handler has run for `upd` with result r: what the framework keeps
Handled(upd, r, fault) ==
    /\ update' = upd
    /\ user_data' = [user_data EXCEPT ![upd.user] = r.ud]
    /\ conv' = [conv EXCEPT ![upd.user] =
                    IF r.raised = "none" /\ r.ret # NoStr THEN r.ret ELSE @]
    /\ DB_POOL' = r.pool
    /\ mysql' = [mysql EXCEPT !.rows = r.rows]
    /\ out' = [k \in DOMAIN NoOut |->
                  IF k = "fault" THEN fault
                  ELSE IF k = "handler" THEN HandlerOf(upd.kind) ELSE r[k]]
    \* save_request and get_user_requests close in finally what they got
    /\ checked_out' = checked_out + Left(r.db \in {"ok", "Error"}, TRUE)
    /\ UNCHANGED <<program, pc, env, CONVO, attempt, slept>>
    /\ UNCHANGED dbvars
    /\ UNCHANGED tasks

\* the faults and row orders that matter to a handler going to `target`:
\* the pool is created on demand only, and only a SELECT that succeeds
\* returns rows
PoolFaults == IF DB_POOL THEN {} ELSE {"pool"}

DbFaults(target) ==
    IF Resolved(target) = "my_requests"
    THEN {"none", "connect", "execute"} \cup PoolFaults ELSE {"none"}

Listings(user, target, fault) ==
    IF Resolved(target) = "my_requests" /\ fault = "none"
    THEN Orderings(Selected(user)) ELSE {<< >>}

\* CommandHandler("start", start): an entry point, allow_reentry=True
Start(u) ==
    /\ pc = "polling"
    /\ \E fault \in DbFaults("start") : \E listing \in Listings(u, "start", fault) :
          Handled(Update("start", u, NoStr, NoText),
                  start(user_data[u], u, fault, listing), fault)

\* CommandHandler("cancel", cancel): a fallback of a running conversation
Cancel(u) ==
    /\ pc = "polling"
    /\ conv[u] # END
    /\ Handled(Update("cancel", u, NoStr, NoText),
               cancel(user_data[u]), "none")

\* CallbackQueryHandler(handle_callback) in the states of the menu
HandleCallback(u, choice) ==
    /\ pc = "polling"
    /\ conv[u] \in ButtonStates
    /\ \E fault \in IF choice = "Confirm Transaction"
                     THEN {"none", "connect", "execute", "commit"} \cup PoolFaults
                     ELSE DbFaults(Target(user_data[u], choice)) :
       \E listing \in Listings(u, Target(user_data[u], choice), fault) :
          LET r == handle_callback(user_data[u], u, choice, fault, listing) IN
          /\ Len(r.rows) <= MaxRows
          /\ Handled(Update("callback", u, choice, NoText), r, fault)

\* MessageHandler(filters.TEXT & ~filters.COMMAND, handle_text)
HandleText(u, text) ==
    /\ pc = "polling"
    /\ conv[u] \in TextStates
    /\ LET target == TextTarget(user_data[u])
       IN \E fault \in DbFaults(target) : \E listing \in Listings(u, target, fault) :
            Handled(Update("text", u, NoStr, text),
                    handle_text(user_data[u], u, text, fault, listing), fault)

\* an update no handler of the conversation's state matches (a text message
\* in a button state, a button press in a text state, anything but /start
\* outside a conversation): the ConversationHandler lets it pass
Ignore(u, kind, data, text) ==
    /\ pc = "polling"
    /\ \/ kind = "text" /\ data = NoStr /\ text # NoText /\ conv[u] \notin TextStates
       \/ kind = "callback" /\ data # NoStr /\ text = NoText /\ conv[u] \notin ButtonStates
       \/ kind = "cancel" /\ data = NoStr /\ text = NoText /\ conv[u] = END
    /\ update' = Update(kind, u, data, text)
    /\ out' = NoOut
    /\ UNCHANGED <<program, pc, env, CONVO, DB_POOL, attempt, slept, mysql, user_data, conv>>
    /\ UNCHANGED dbvars
    /\ UNCHANGED <<tasks, checked_out>>

\* ------------------------------------------------------------ database.py
\* the users whose requests, and whose submissions, database.py's callers store
Callers == {1, 2}
Providers == {1}

\* the import of database.py: SystemExit without DATABASE_URL, else the pool
\* is created, which fails when the server cannot be reached
Import(fault) ==
    /\ pc = "import"
    /\ IF ~env.DATABASE_URL
       THEN /\ pc' = "exit"
            /\ POOL' = FALSE
            /\ out' = [NoOut EXCEPT !.raised = "SystemExit"]
       ELSE IF fault = "pool"
       THEN /\ pc' = "exit"
            /\ POOL' = FALSE
            /\ out' = [NoOut EXCEPT !.raised = "Error"]
       ELSE /\ pc' = "ready"
            /\ POOL' = TRUE
            /\ out' = NoOut
    /\ UNCHANGED <<program, env, update, db>>
    /\ UNCHANGED botvars
    /\ UNCHANGED checked_out

\* get_conn(): POOL.get_connection()
get_conn(fault) == IF fault = "connect" THEN "Error" ELSE "ok"

\* init_db() of database.py: the tables afterwards and how the call ended;
\* CREATE TABLE IF NOT EXISTS takes effect when it is executed
database_init_db(fault) ==
    IF get_conn(fault) = "Error" \/ fault = "execute"
    THEN [db |-> db, res |-> "Error"]
    ELSE IF fault = "execute2"
    THEN [db |-> [db EXCEPT !.requests_table = TRUE], res |-> "Error"]
    ELSE [db |-> [db EXCEPT !.requests_table = TRUE, !.submissions_table = TRUE],
          res |-> IF fault = "commit" THEN "Error" ELSE "ok"]

\* the row an INSERT adds: id AUTO_INCREMENT, status DEFAULT 'pending',
\* created_at DEFAULT CURRENT_TIMESTAMP
DbRow(rows, user_id, username, category, service, text) ==
    [id |-> Len(rows) + 1, user_id |-> user_id, username |-> username,
     category |-> category, service |-> service, text |-> text,
     status |-> "pending", created_at |-> db.now]

\* add_request(): the pool is autocommit, so the row is stored once the
\* INSERT has been executed, whatever becomes of conn.commit()
add_request(user_id, username, category, service, details, fault) ==
    IF get_conn(fault) = "Error" \/ fault = "execute" \/ ~db.requests_table
    THEN [db |-> db, res |-> "Error"]
    ELSE [db |-> [db EXCEPT !.requests =
                     Append(@, DbRow(@, user_id, username, category, service, details))],
          res |-> IF fault = "commit" THEN "Error" ELSE "ok"]

\* add_submission()
add_submission(user_id, username, category, service, experience, fault) ==
    IF get_conn(fault) = "Error" \/ fault = "execute" \/ ~db.submissions_table
    THEN [db |-> db, res |-> "Error"]
    ELSE [db |-> [db EXCEPT !.submissions =
                     Append(@, DbRow(@, user_id, username, category, service, experience))],
          res |-> IF fault = "commit" THEN "Error" ELSE "ok"]

\* SELECT id, category, service, details, status, created_at ... WHERE user_id = %s
Columns(rows, user_id) ==
    LET hit == SelectSeq(rows, LAMBDA r : r.user_id = user_id)
    IN  [i \in 1..Len(hit) |->
            <<hit[i].id, hit[i].category, hit[i].service, hit[i].text,
              hit[i].status, hit[i].created_at>>]

\* ORDER BY created_at DESC: rows of one timestamp come in any order
NewestFirst(rows) ==
    { l \in Orderings(rows) : \A i \in 1..(Len(l) - 1) : l[i][6] >= l[i + 1][6] }

\* get_requests_by_user(): `listing` is the order the server returns
get_requests_by_user(user_id, fault, listing) ==
    IF get_conn(fault) = "Error" \/ fault = "execute" \/ ~db.requests_table
    THEN [rows |-> << >>, res |-> "Error"]
    ELSE [rows |-> listing, res |-> "ok"]

\* get_submissions_by_user()
get_submissions_by_user(user_id, fault, listing) ==
    IF get_conn(fault) = "Error" \/ fault = "execute" \/ ~db.submissions_table
    THEN [rows |-> << >>, res |-> "Error"]
    ELSE [rows |-> listing, res |-> "ok"]

\* a call of database.py by its importer: none of its functions catches
Call(kind, user) ==
    [kind |-> kind, user |-> user, data |-> NoStr, text |-> NoText, node |-> NoStr]

Called(call, res, rows, db1, fault) ==
    /\ update' = call
    /\ db' = db1
    /\ out' = [NoOut EXCEPT !.raised = IF res = "ok" THEN "none" ELSE res,
                            !.db = res, !.listing = rows, !.fault = fault]
    \* conn = get_conn() before the try, conn.close() in its finally
    /\ checked_out' = checked_out + Left(fault # "connect", TRUE)
    /\ UNCHANGED <<program, pc, env, POOL>>
    /\ UNCHANGED botvars

DbInitDb(fault) ==
    /\ pc = "ready"
    /\ LET r == database_init_db(fault)
       IN  Called(Call("init_db", 0), r.res, << >>, r.db, fault)

AddRequest(u, fault) ==
    /\ pc = "ready"
    /\ LET r == add_request(u, "alice", "Web Design", "Landing page", "Need a 5-page site", fault)
       IN  /\ Len(r.db.requests) <= MaxRows
           /\ Called(Call("add_request", u), r.res, << >>, r.db, fault)

AddSubmission(u, fault) ==
    /\ pc = "ready"
    /\ LET r == add_submission(u, "bob", "Web Design", "Landing page", "5 years", fault)
       IN  /\ Len(r.db.submissions) <= MaxSubmissions
           /\ Called(Call("add_submission", u), r.res, << >>, r.db, fault)

GetRequestsByUser(u, fault) ==
    /\ pc = "ready"
    /\ \E listing \in IF fault = "none" THEN NewestFirst(Columns(db.requests, u)) ELSE {<< >>} :
          LET r == get_requests_by_user(u, fault, listing)
          IN  Called(Call("get_requests_by_user", u), r.res, r.rows, db, fault)

GetSubmissionsByUser(u, fault) ==
    /\ pc = "ready"
    /\ \E listing \in IF fault = "none" THEN NewestFirst(Columns(db.submissions, u)) ELSE {<< >>} :
          LET r == get_submissions_by_user(u, fault, listing)
          IN  Called(Call("get_submissions_by_user", u), r.res, r.rows, db, fault)

\* the server's clock moves on by a second
Tick ==
    /\ program = "database.py"
    /\ db.now < MaxClock
    /\ db' = [db EXCEPT !.now = @ + 1]
    /\ UNCHANGED <<program, pc, env, update, out, POOL>>
    /\ UNCHANGED botvars
    /\ UNCHANGED checked_out

\* the process ends and is started again: module state is built anew, the
\* MySQL server keeps its data
Restart ==
    /\ pc \in {"polling", "ready", "exit"}
    /\ pc' = IF program = "bot.py" THEN "main" ELSE "import"
    /\ DB_POOL' = FALSE
    /\ POOL' = FALSE
    /\ attempt' = 0
    /\ slept' = 0
    /\ user_data' = [u \in DOMAIN user_data |-> EmptyUserData]
    /\ conv' = [u \in DOMAIN conv |-> END]
    /\ update' = NoUpdate
    /\ out' = NoOut
    /\ tasks' = {}
    /\ checked_out' = 0
    /\ UNCHANGED <<program, env, CONVO, mysql, db>>

Next ==
    \/ Main
    \/ \E fault \in Faults : InitDbAttempt(fault)
    \/ InitDbGiveUp
    \/ \E u \in Users : Start(u)
    \/ \E u \in Users : Cancel(u)
    \/ \E u \in Users, choice \in Buttons : HandleCallback(u, choice)
    \/ \E u \in Users, text \in Texts : HandleText(u, text)
    \/ \E u \in Users, kind \in {"text", "callback", "cancel"},
          data \in Buttons \cup {NoStr}, text \in Texts \cup {NoText} :
             Ignore(u, kind, data, text)
    \/ \E fault \in {"none", "pool"} : Import(fault)
    \/ \E fault \in {"none", "connect", "execute", "execute2", "commit"} : DbInitDb(fault)
    \/ \E u \in Callers, fault \in {"none", "connect", "execute", "commit"} :
          AddRequest(u, fault)
    \/ \E u \in Providers, fault \in {"none", "connect", "execute", "commit"} :
          AddSubmission(u, fault)
    \/ \E u \in Callers, fault \in {"none", "connect", "execute"} :
          GetRequestsByUser(u, fault)
    \/ \E u \in Providers, fault \in {"none", "connect", "execute"} :
          GetSubmissionsByUser(u, fault)
    \/ Tick
    \/ Restart

Spec == Init /\ [][Next]_vars

\* ------------------------------------------ bot.py at the grain of its awaits
\* The same handlers with their suspension points: handle_callback awaits
\* query.answer() before it reads anything, every handler awaits the
\* reply_text or edit_message_text that ends goto_state, and the
\* ConversationHandler stores the returned state when the handler is done.
\* Between two awaits a handler runs without interruption (one event loop).
AwaitUsers == {1, 2}

\* the updates a user sends: user 1 whatever there is, user 2 /start and one
\* button
Sendable(u) ==
    IF u = 1
    THEN {[kind |-> "start", user |-> u, data |-> NoStr, text |-> NoText],
          [kind |-> "cancel", user |-> u, data |-> NoStr, text |-> NoText]}
            \cup {[kind |-> "text", user |-> u, data |-> NoStr, text |-> t] : t \in Texts}
            \cup {[kind |-> "callback", user |-> u, data |-> b, text |-> NoText] :
                     b \in Buttons}
    ELSE {[kind |-> "start", user |-> u, data |-> NoStr, text |-> NoText],
          [kind |-> "callback", user |-> u, data |-> "Our Services", text |-> NoText]}

\* the bot polls after a start in which init_db succeeded
InitAwait ==
    /\ program = "bot.py"
    /\ pc = "polling"
    /\ env = [token |-> TRUE, host |-> TRUE, user |-> TRUE, password |-> TRUE]
    /\ CONVO = MenuWellFormed
    /\ POOL = FALSE
    /\ db = EmptyDb
    /\ DB_POOL = TRUE
    /\ attempt = 0
    /\ slept = 0
    /\ mysql = [database |-> TRUE, table |-> TRUE, rows |-> << >>]
    /\ user_data = [u \in AwaitUsers |-> EmptyUserData]
    /\ conv = [u \in AwaitUsers |-> END]
    /\ update = NoUpdate
    /\ out = NoOut
    /\ tasks = {}
    /\ checked_out = 0

\* a handler in flight: its update, the await it is suspended at ("answer",
\* "send") and the value it returns when resumed at "send"
Task(upd, at, ret) ==
    [kind |-> upd.kind, user |-> upd.user, data |-> upd.data, text |-> upd.text,
     at |-> at, ret |-> ret]

\* the node the handler of task t asks goto_state for
TaskTarget(t) ==
    CASE t.kind = "callback" -> Target(user_data[t.user], t.data)
      [] t.kind = "text" -> TextTarget(user_data[t.user])
      [] OTHER -> "start"

\* the handler of task t run on the session as it is now
TaskResult(t, listing) ==
    LET ud == user_data[t.user] IN
    CASE t.kind = "start" -> start(ud, t.user, "none", listing)
      [] t.kind = "cancel" -> cancel(ud)
      [] t.kind = "callback" -> handle_callback(ud, t.user, t.data, "none", listing)
      [] t.kind = "text" -> handle_text(ud, t.user, t.text, "none", listing)

\* task t runs from where it stands to the await of its last message, or to
\* the exception that ends it
Ran(t) ==
    \E listing \in Listings(t.user, TaskTarget(t), "none") :
       \E r \in {TaskResult(t, listing)} :
       /\ Len(r.rows) <= MaxRows
       /\ user_data' = [user_data EXCEPT ![t.user] = r.ud]
       /\ mysql' = [mysql EXCEPT !.rows = r.rows]
       /\ DB_POOL' = r.pool
       /\ tasks' = IF r.raised = "none"
                   THEN (tasks \ {t}) \cup {[t EXCEPT !.at = "send", !.ret = r.ret]}
                   ELSE tasks \ {t}
       /\ UNCHANGED <<program, pc, env, CONVO, attempt, slept, conv, update, out>>
       /\ UNCHANGED dbvars
       /\ checked_out' = checked_out + Left(r.db \in {"ok", "Error"}, TRUE)

\* the handler the ConversationHandler has for update upd in the state of
\* its user
Matches(upd) ==
    \/ upd.kind = "start"
    \/ upd.kind = "cancel" /\ conv[upd.user] # END
    \/ upd.kind = "callback" /\ conv[upd.user] \in ButtonStates
    \/ upd.kind = "text" /\ conv[upd.user] \in TextStates

\* an Application built with concurrent_updates: the next update is
\* dispatched while handlers are in flight
Fetch_Concurrent(upd) ==
    /\ pc = "polling"
    /\ Matches(upd)
    /\ upd.data = "Confirm Transaction" => Len(mysql.rows) < MaxRows
    /\ IF upd.kind = "callback"
       THEN /\ tasks' = tasks \cup {Task(upd, "answer", NoStr)}
            /\ UNCHANGED <<program, pc, env, CONVO, DB_POOL, attempt, slept, mysql,
                           user_data, conv, update, out>>
            /\ UNCHANGED dbvars
            /\ UNCHANGED checked_out
       ELSE Ran(Task(upd, "begin", NoStr))

\* the Application takes the next update from its queue and awaits its
\* handler: built without concurrent_updates, with blocking handlers, it
\* does so only when the handler of the update before is done
Fetch(upd) ==
    /\ pc = "polling"
    /\ tasks = {}
    /\ Matches(upd)
    \* no request is confirmed once the table holds MaxRows of them
    /\ upd.data = "Confirm Transaction" => Len(mysql.rows) < MaxRows
    /\ IF upd.kind = "callback"
       THEN /\ tasks' = tasks \cup {Task(upd, "answer", NoStr)}
            /\ UNCHANGED <<program, pc, env, CONVO, DB_POOL, attempt, slept, mysql,
                           user_data, conv, update, out>>
            /\ UNCHANGED dbvars
            /\ UNCHANGED checked_out
       ELSE Ran(Task(upd, "begin", NoStr))

\* query.answer() is done: handle_callback goes on
Answered(t) ==
    /\ t.at = "answer"
    /\ Ran(t)

\* the last message is sent: the handler returns and the
\* ConversationHandler stores the state it returned
Returned(t) ==
    /\ t.at = "send"
    /\ conv' = [conv EXCEPT ![t.user] = IF t.ret # NoStr THEN t.ret ELSE @]
    /\ tasks' = tasks \ {t}
    /\ UNCHANGED <<program, pc, env, CONVO, DB_POOL, attempt, slept, mysql, user_data,
                   update, out>>
    /\ UNCHANGED dbvars
    /\ UNCHANGED checked_out

\* the event loop resumes a handler whose await is done
Resume == \E t \in tasks : Answered(t) \/ Returned(t)

NextAwait ==
    \/ \E u \in AwaitUsers : \E upd \in Sendable(u) : Fetch(upd)
    \/ \E t \in tasks : Answered(t)
    \/ \E t \in tasks : Returned(t)

\* the event loop resumes every handler whose await is done, and updates
\* keep arriving
SpecAwait ==
    InitAwait /\ [][NextAwait]_vars /\ WF_vars(Resume) /\ WF_vars(NextAwait)

\* =================================================================== claims
\* the payloads handle_callback handles before it looks at the next-mapping
Hardcoded == {"Confirm Transaction", "Cancel Request", "Request Service", "Back"}

\* the fields a conversation collects
Collected(ud) == <<ud.project_type, ud.project_details, ud.username, ud.parent_state>>

\* this step is handle_callback run for user u (its button is update'.data)
CallbackStep(u) ==
    /\ pc = "polling" /\ pc' = "polling"
    /\ update'.kind = "callback" /\ update'.user = u
    /\ out'.handler = "handle_callback"

\* this step is handle_text run for user u
TextStep(u) ==
    /\ pc = "polling" /\ pc' = "polling"
    /\ update'.kind = "text" /\ update'.user = u
    /\ out'.handler = "handle_text"

\* this step presses, at the node the session is at, a button that is no key
\* of the node's next-mapping
UnmappedPress(u) ==
    /\ CallbackStep(u)
    /\ update'.data \notin DOMAIN NextMapping(Get(user_data[u], "state_name", "start"))

SessionKept(u) ==
    /\ user_data'[u].state_name = user_data[u].state_name
    /\ Collected(user_data'[u]) = Collected(user_data[u])
    /\ mysql' = mysql

\* C1 as stated: every button that is no key of the current node's
\* next-mapping, the four hardcoded payloads included, re-renders the same
\* node and leaves state_name, the collected fields and the table unchanged
\* (a failing query of my_requests, the subject of C7, is not held against it).
C1_UnmappedButtonRerenders ==
    [][\A u \in DOMAIN user_data :
          UnmappedPress(u) =>
             /\ SessionKept(u)
             /\ \/ /\ out'.raised = "none"
                   /\ out'.rendered = user_data[u].state_name
                \/ /\ out'.raised = "ValueError"
                   /\ user_data[u].state_name = "my_requests"]_vars

\* C1 amended: a button that is no key of the current node's next-mapping
\* and none of the four hardcoded payloads leaves state_name, the collected
\* fields and the table unchanged and re-renders the same node; the one
\* exception to the re-rendering is my_requests without database
\* credentials, where get_user_requests raises ValueError.
C1_UnmappedOtherButtonRerenders ==
    [][\A u \in DOMAIN user_data :
          (UnmappedPress(u) /\ update'.data \notin Hardcoded) =>
             /\ SessionKept(u)
             /\ \/ /\ out'.raised = "none"
                   /\ out'.rendered = user_data[u].state_name
                \/ /\ out'.raised = "ValueError"
                   /\ user_data[u].state_name = "my_requests"
                   /\ ~DB_POOL
                   /\ ~(env.host /\ env.user /\ env.password)]_vars

\* C1 witness: a button outside the next-mapping and the hardcoded payloads
\* was pressed at a description node mid-conversation, and the node was
\* rendered again.
C1_Witness ==
    /\ update.kind = "callback"
    /\ update.data \notin Hardcoded
    /\ update.node = "web_design"
    /\ update.data \notin DOMAIN NextMapping(update.node)
    /\ out.rendered = update.node
    /\ user_data[update.user].project_type = "Web Design"
    /\ user_data[update.user].last_choice = update.data

\* the session is at the summary with category, details and username
Completed(ud) ==
    /\ ud.state_name = "request_summary"
    /\ ud.project_type # NoStr
    /\ ud.project_details # NoText
    /\ ud.username # NoText

\* C2: confirming a completed conversation appends exactly one record with
\* the entered category, details and username and the default status, and
\* no event sent after the confirm (the session being at
\* request_confirmation) adds another.
C2_ExactlyOneRecord ==
    [][\A u \in DOMAIN user_data :
          /\ (CallbackStep(u) /\ update'.data = "Confirm Transaction"
                 /\ Completed(user_data[u])) =>
                mysql'.rows = Append(mysql.rows,
                    [id |-> Len(mysql.rows) + 1, user_id |-> u,
                     username |-> user_data[u].username,
                     project_type |-> user_data[u].project_type,
                     details |-> user_data[u].project_details,
                     status |-> "Pending"])
          /\ (pc = "polling" /\ pc' = "polling"
                 /\ Completed([user_data[u] EXCEPT !.state_name = "request_summary"])
                 /\ user_data[u].state_name = "request_confirmation") =>
                mysql'.rows = mysql.rows]_vars

\* the node the handler of this step asks goto_state for
Asked(u) ==
    IF update'.kind = "callback" THEN Target(user_data[u], update'.data)
    ELSE IF update'.kind = "text" THEN TextTarget(user_data[u])
    ELSE "start"

\* C3: a session's state_name, when set, is a key of CONVO, and whenever
\* goto_state is asked for a name that is no key of CONVO (or whose entry is
\* empty) the name stored in the session is "start".
C3_NodeInMenuElseRoot ==
    /\ [](\A u \in DOMAIN user_data :
            user_data[u].state_name # NoStr => user_data[u].state_name \in DOMAIN CONVO)
    /\ [][\A u \in DOMAIN user_data :
             ((CallbackStep(u) \/ TextStep(u)) /\ Falsy(Asked(u))) =>
                user_data'[u].state_name = "start"]_vars

\* C4: for a button press and for a text message alike, a transition to a
\* node absent from the menu completes without raising, shows the warning,
\* and renders and stores the root node.
C4_UnknownNodeRecovers ==
    [][\A u \in DOMAIN user_data :
          ((CallbackStep(u) \/ TextStep(u)) /\ Falsy(Asked(u))) =>
             /\ out'.raised = "none"
             /\ out'.warned
             /\ out'.rendered = "start"
             /\ user_data'[u].state_name = "start"
             /\ conv'[u] = "start"]_vars

\* the session /start leaves
RootSession == [EmptyUserData EXCEPT !.state_name = "start"]

\* C5: after /start, and after the button "Cancel Request", the session is
\* the root session whatever it was before: state_name = "start" and no
\* collected field, so a second /start changes nothing.
C5_StartResets ==
    (\/ update.kind = "start"
     \/ /\ update.kind = "callback" /\ update.data = "Cancel Request"
        /\ out.handler = "handle_callback") =>
        /\ user_data[update.user] = RootSession
        /\ conv[update.user] = "start"
        /\ out.raised = "none"
        /\ out.rendered = "start"

\* C5 witness: /start arrived at the summary, with category, details and
\* username collected, and the session holds none of them.
C5_Witness ==
    /\ update.kind = "start"
    /\ update.node = "request_summary"
    /\ user_data[update.user] = RootSession

\* this step is a call of database.py's function `kind` (the clock stands)
CallStep(kind) ==
    /\ pc = "ready" /\ pc' = "ready"
    /\ update'.kind = kind
    /\ db'.now = db.now

\* C6: whatever fails on the insert path, the confirm handler does not
\* raise, the table is left as it was and the session moves on to
\* request_confirmation; add_request of database.py likewise returns
\* normally and leaves its table alone.
C6_InsertFailureLogged ==
    [][/\ \A u \in DOMAIN user_data :
             (CallbackStep(u) /\ update'.data = "Confirm Transaction") =>
                /\ out'.raised = "none"
                /\ out'.db # "ok" => mysql'.rows = mysql.rows
                /\ user_data'[u].state_name = "request_confirmation"
       /\ CallStep("add_request") =>
             /\ out'.raised = "none"
             /\ out'.db # "ok" => db' = db]_vars

\* the update made a handler of bot.py query the requests of its user
Queried ==
    /\ program = "bot.py"
    /\ update.kind \in {"start", "callback", "text"}
    /\ ~(update.kind = "callback" /\ update.data = "Confirm Transaction")
    /\ out.db # "none"

\* s in reverse order
Reverse(s) == [i \in 1..Len(s) |-> s[Len(s) + 1 - i]]

\* C7: a query by user never ends in an exception: it lists nothing for a
\* user without rows and nothing when the query path fails, and my_requests
\* is rendered all the same; so for get_user_requests and for
\* get_requests_by_user.
C7_QueryNeverErrors ==
    /\ Queried =>
          /\ out.raised = "none"
          /\ out.rendered = "my_requests"
          /\ (out.db # "ok" \/ Selected(update.user) = << >>) => out.listing = << >>
    /\ (program = "database.py" /\ update.kind = "get_requests_by_user") =>
          /\ out.raised = "none"
          /\ (out.db # "ok" \/ Columns(db.requests, update.user) = << >>) =>
                out.listing = << >>

\* C8: a query that succeeds lists exactly the rows of its user, the one
\* inserted last first; so for get_user_requests and for
\* get_requests_by_user.
C8_NewestFirst ==
    /\ (Queried /\ out.db = "ok") =>
          out.listing = Reverse(Selected(update.user))
    /\ (program = "database.py" /\ update.kind = "get_requests_by_user"
            /\ out.db = "ok") =>
          out.listing = Reverse(Columns(db.requests, update.user))

\* C9: init_db run against a schema that is there already leaves the
\* server as it is, tables and rows, whatever happens during it, and when
\* nothing fails it ends without an error; so for init_db of bot.py (one
\* pass of its loop) and for init_db of database.py.
C9_InitDbIdempotent ==
    [][/\ (pc = "init_db" /\ attempt < max_retries /\ mysql.database /\ mysql.table) =>
             /\ mysql' = mysql
             /\ out'.fault = "none" =>
                   (out'.db = "ok" /\ out'.raised = "none" /\ pc' = "polling")
       /\ (CallStep("init_db") /\ db.requests_table /\ db.submissions_table) =>
             /\ db' = db
             /\ out'.fault = "none" => out'.raised = "none"]_vars

\* C9 witness: the bot was started again over a table that holds rows,
\* init_db has run through once more, and the rows are there.
C9_Witness ==
    /\ program = "bot.py"
    /\ pc = "polling"
    /\ update = NoUpdate
    /\ out.db = "ok"
    /\ mysql.table
    /\ Len(mysql.rows) > 0

\* C10: the bot polls, and database.py is ready to be called, only with the
\* token and the database configuration in the environment.
C10_MissingConfigAborts ==
    /\ (program = "bot.py" /\ pc = "polling") =>
          (env.token /\ env.host /\ env.user /\ env.password)
    /\ (program = "database.py" /\ pc = "ready") => env.DATABASE_URL

\* this step is start run for user u
StartStep(u) ==
    /\ pc = "polling" /\ pc' = "polling"
    /\ update'.kind = "start" /\ update'.user = u
    /\ out'.handler = "start"

\* this step runs a handler of user u that calls goto_state for a node of
\* the menu
Renders(u) ==
    /\ \/ StartStep(u)
       \/ TextStep(u)
       \/ CallbackStep(u) /\ ~(update'.data = "Confirm Transaction" /\ out'.db = "ValueError")
    /\ ~Falsy(Asked(u))

\* get_user_requests raised for want of credentials while my_requests was
\* rendered (the subject of C7)
QueryRaised(u) ==
    /\ out'.raised = "ValueError"
    /\ Asked(u) = "my_requests"
    /\ ~DB_POOL
    /\ ~(env.host /\ env.user /\ env.password)

\* what SummaryTemplate reads for session ud, with `unknown` in the place of
\* a missing project_type and nothing in the place of missing details and
\* username
Summary(ud, unknown) ==
    << <<"Summary">>,
       << IF ud.project_type = NoStr THEN unknown ELSE ud.project_type >>,
       IF ud.project_details = NoText THEN << >> ELSE ud.project_details,
       IF ud.username = NoText THEN << >> ELSE ud.username >>

\* C11 as stated: rendering a node of the menu does not raise whatever the
\* session holds, and the summary shows the empty string for each of
\* project_type, project_details and username the session lacks (a query
\* of my_requests that raises, the subject of C7, is not held against it).
C11_MissingFieldsRenderEmpty ==
    [][\A u \in DOMAIN user_data :
          Renders(u) =>
             \/ QueryRaised(u)
             \/ /\ out'.raised = "none"
                /\ out'.rendered = Asked(u)
                /\ Asked(u) = "request_summary" =>
                      out'.text = Summary(user_data'[u], "")]_vars

\* C11 amended: rendering a node of the menu does not raise whatever the
\* session holds, except that my_requests raises ValueError without pool
\* and credentials; the summary shows "Unknown" for a missing project_type
\* and the empty string for missing project_details and username.
C11_MissingFieldsRenderDefaults ==
    [][\A u \in DOMAIN user_data :
          Renders(u) =>
             \/ QueryRaised(u)
             \/ /\ out'.raised = "none"
                /\ out'.rendered = Asked(u)
                /\ Asked(u) = "request_summary" =>
                      out'.text = Summary(user_data'[u], "Unknown")]_vars

\* C11 witness: the summary was rendered for a session that holds none of
\* the three fields.
C11_Witness ==
    /\ out.rendered = "request_summary"
    /\ out.raised = "none"
    /\ user_data[update.user].project_type = NoStr
    /\ user_data[update.user].project_details = NoText
    /\ user_data[update.user].username = NoText
    /\ out.text = << <<"Summary">>, <<"Unknown">>, << >>, << >> >>

\* a text message of user u arrives in this step, handled or not
TextArrives(u) ==
    /\ pc = "polling" /\ pc' = "polling"
    /\ update'.kind = "text" /\ update'.user = u

\* s from its first to its last character outside chars
Between(s, chars) ==
    LET keep == { i \in 1..Len(s) : s[i] \notin chars }
    IN  IF keep = {} THEN << >>
        ELSE SubSeq(s, CHOOSE i \in keep : \A j \in keep : i <= j,
                       CHOOSE i \in keep : \A j \in keep : i >= j)

\* s from its first character outside chars on
From(s, chars) ==
    LET keep == { i \in 1..Len(s) : s[i] \notin chars }
    IN  IF keep = {} THEN << >>
        ELSE SubSeq(s, CHOOSE i \in keep : \A j \in keep : i <= j, Len(s))

\* C12: a text at request_details is stored trimmed as project_details and
\* leads to request_username; a text at request_username is stored trimmed
\* and without leading '@' as username and leads to request_summary, the
\* details being stored by then; a text at any other node changes nothing
\* in the session and is answered with the menu of the current node.
C12_TextOrder ==
    [][\A u \in DOMAIN user_data :
          TextArrives(u) =>
             CASE update'.node = "request_details" ->
                    /\ user_data'[u].project_details = Between(update'.text, Whitespace)
                    /\ user_data'[u].state_name = Resolved("request_username")
               [] update'.node = "request_username" ->
                    /\ user_data'[u].username =
                          From(Between(update'.text, Whitespace), {"@"})
                    /\ user_data'[u].state_name = Resolved("request_summary")
                    /\ user_data'[u].project_details # NoText
               [] update'.node \in DOMAIN CONVO \ TextStates ->
                    /\ user_data' = user_data
                    /\ out'.raised = "none"
                    /\ out'.rendered = update'.node
               [] OTHER -> TRUE]_vars

\* C13: init_db makes at most max_retries attempts: an attempt that
\* succeeds returns to main, the k-th that fails with a database error
\* sleeps retry_seconds * k and does not raise, and after max_retries
\* failures init_db returns without another attempt (only the ValueError
\* for incomplete credentials, which is no database error, leaves init_db
\* by raising); save_request and get_user_requests make one attempt: a
\* call during which the database fails does not succeed.
C13_InitRetriesBounded ==
    /\ [](attempt <= max_retries)
    /\ [][/\ (pc = "init_db" /\ attempt < max_retries) =>
                CASE out'.db = "ok" ->
                       pc' = "polling" /\ out'.raised = "none"
                  [] out'.db = "Error" ->
                       /\ pc' = "init_db" /\ out'.raised = "none"
                       /\ attempt' = attempt + 1
                       /\ slept' = retry_seconds * attempt'
                  [] OTHER ->
                       /\ pc' = "exit" /\ out'.raised = "ValueError"
                       /\ ~(env.host /\ env.user /\ env.password)
          /\ (pc = "init_db" /\ attempt >= max_retries) =>
                /\ pc' = "polling" /\ out'.raised = "none"
                /\ mysql' = mysql /\ DB_POOL' = DB_POOL
          /\ \A u \in DOMAIN user_data :
                ((CallbackStep(u) \/ TextStep(u) \/ StartStep(u))
                    /\ out'.fault # "none") =>
                   /\ out'.db \in {"Error", "ValueError"}
                   /\ mysql' = mysql
                   /\ out'.listing = << >>]_vars

\* C13 witness: the last of max_retries attempts has failed and init_db has
\* slept retry_seconds * max_retries.
C13_Witness ==
    /\ pc = "init_db"
    /\ attempt = max_retries
    /\ slept = retry_seconds * max_retries
    /\ out.db = "Error"

\* this step is handle_callback run for "Confirm Transaction" of user u
ConfirmStep(u) ==
    CallbackStep(u) /\ update'.data = "Confirm Transaction"

\* the row an insert built from session ud of user u adds to rows
Record(rows, u, ud) ==
    [id |-> Len(rows) + 1, user_id |-> u,
     username |-> IF ud.username = NoText THEN << >> ELSE ud.username,
     project_type |-> IF ud.project_type = NoStr THEN "Unknown" ELSE ud.project_type,
     details |-> IF ud.project_details = NoText THEN << >> ELSE ud.project_details,
     status |-> "Pending"]

Interleaved ==
    \E t1 \in tasks, t2 \in tasks : t1 # t2 /\ t1.user = t2.user

\* the tasks a step starts, moves on or ends
Moved == (tasks \ tasks') \cup (tasks' \ tasks)

\* a step changes the session or the conversation state of user u only as
\* part of a handler of u
OwnSession(u) ==
    (user_data'[u] # user_data[u] \/ conv'[u] # conv[u]) =>
       \A t \in Moved : t.user = u

Fields(ud) == <<ud.username, ud.project_type, ud.project_details>>

\* C16: handle_callback, in whatever button state it is dispatched, answers
\* a "Confirm Transaction" press by one call of save_request: when the
\* insert succeeds the table grows by the one row built from the session's
\* fields ('Unknown' for a missing project_type, empty text for missing
\* details and username), otherwise the table is unchanged; the fields stay
\* in the session, so a further press inserts the same fields again.
C16_ConfirmAnywhere ==
    [][\A u \in DOMAIN user_data :
          ConfirmStep(u) =>
             /\ conv[u] \in ButtonStates
             /\ out'.db \in {"ok", "Error", "ValueError"}
             /\ out'.db = "ok" =>
                   mysql'.rows = Append(mysql.rows, Record(mysql.rows, u, user_data[u]))
             /\ out'.db # "ok" => mysql'.rows = mysql.rows
             /\ Fields(user_data'[u]) = Fields(user_data[u])
             /\ user_data'[u].parent_state = user_data[u].parent_state
             /\ user_data'[u].last_choice = "Confirm Transaction"]_vars

\* C16 witness: "Confirm Transaction" pressed twice with nothing collected,
\* the second time at the confirmation itself: two rows of the same user
\* with project_type 'Unknown' and empty details and username.
C16_Witness ==
    /\ update.kind = "callback" /\ update.data = "Confirm Transaction"
    /\ update.node = "request_confirmation"
    /\ out.handler = "handle_callback" /\ out.db = "ok"
    /\ Fields(user_data[update.user]) = <<NoText, NoStr, NoText>>
    /\ Len(mysql.rows) = 2
    /\ \A i \in 1..2 :
          /\ mysql.rows[i].user_id = update.user
          /\ mysql.rows[i].project_type = "Unknown"
          /\ mysql.rows[i].username = << >>
          /\ mysql.rows[i].details = << >>

\* this step is cancel run for user u
CancelStep(u) ==
    /\ pc = "polling" /\ pc' = "polling"
    /\ update'.kind = "cancel" /\ update'.user = u
    /\ out'.handler = "cancel"

\* after this step the ConversationHandler's state of user u is the
\* state_name of u's session, or the conversation is over and the session
\* empty
AgreeAfter(u) ==
    IF conv'[u] = END THEN user_data'[u] = EmptyUserData
    ELSE conv'[u] = user_data'[u].state_name

\* what is dispatched where: handle_text only at the two text nodes,
\* handle_callback only at the other nodes, and outside a conversation
\* nothing but start
DispatchedByNode(u) ==
    /\ TextStep(u) => user_data[u].state_name \in TextStates
    /\ CallbackStep(u) => user_data[u].state_name \in DOMAIN CONVO \ TextStates
    /\ (TextStep(u) \/ CallbackStep(u) \/ CancelStep(u)) => conv[u] # END

\* C17 as stated: after every event a handler has handled the
\* ConversationHandler's state of the user is the state_name the session
\* holds (after /cancel: the conversation is over and the session empty),
\* and so text is dispatched at request_details and request_username only,
\* button presses at the other nodes only, and after /cancel only /start.
C17_StateAgrees ==
    [][\A u \in DOMAIN user_data :
          /\ (StartStep(u) \/ CallbackStep(u) \/ TextStep(u)) => AgreeAfter(u)
          /\ CancelStep(u) => conv'[u] = END /\ user_data'[u] = EmptyUserData
          /\ DispatchedByNode(u)]_vars

\* C18 as stated: whenever no persistence operation is under way (init_db
\* has returned or main has ended, every handler and every call of
\* database.py has ended) no connection of the pool is checked out.
C18_ConnectionsReleased ==
    pc \in {"polling", "ready", "exit"} => checked_out = 0

====
